---- MODULE Spec2Model ----
(***************************************************************************)
(* A model of the Warcraft plugin for Source.Python (Mahi/Warcraft-SP):    *)
(* the cooldown store (utilities.py), the skill callback registry and the  *)
(* repeating skill (entities/skill.py), and the event handlers and the     *)
(* persistence of warcraft.py.                                             *)
(*                                                                         *)
(* The specifications of the module:                                       *)
(*   SpecCooldown  a CooldownDict under reads, writes and a clock;         *)
(*   SpecSkill     one hero's skills under Skill.execute, execute_skills   *)
(*                 and level assignments;                                  *)
(*   SpecRegistry  the registries of the skill classes under class         *)
(*                 declarations and Skill.execute;                         *)
(*   Spec          the plugin: host events, menus, saves and loads;        *)
(*   SpecStore, SpecLoad, SpecDamage: the plugin with a failing storage,   *)
(*                 on stored rows, and under the pre-damage hook.          *)
(***************************************************************************)
EXTENDS Integers, Sequences, FiniteSets, TLC

VARIABLES
    \* ---- SpecCooldown: one CooldownDict and the clock it reads ----
    cd_store,     \* the dict's own content: key -> stored number
    now,          \* time.time()
    cd_written,   \* key -> the last explicit write <<d, t, key was present>>, or <<>>
    cd_read,      \* the last read: [key, value, t, fresh], or [key |-> "none"]
    \* ---- SpecSkill: the skills of one hero ----
    sk_skills,    \* hero.skills: a sequence of skill instances
    sk_last,      \* the last operation and how it ended
    sk_calls,     \* the callbacks the last operation invoked: <<skill, name>>
    sk_hist,      \* the latest direct spawn/death deliveries to one skill
    sk_trans,     \* the last two tick transitions ("start"/"stop") per skill
    \* ---- SpecRegistry: the skill classes and one instance of each ----
    rg_registry,  \* declared class -> its _event_callbacks
    rg_skills,    \* class -> the instance made of it
    rg_last,      \* the last declaration or execute and what it did
    \* ---- Spec: the plugin ----
    pl_players,   \* g_players: index -> Player, or NoPlayer
    pl_db,        \* the rows of g_database
    pl_plugin,    \* loaded, _data_save_repeat's status, the database handle
    pl_leaked,    \* scheduled tick tasks of skills whose Player was discarded
    pl_granted,   \* the xp the kills of the run could grant so far
    pl_last       \* the last event and the record of what its handlers did

cdVars == <<cd_store, now, cd_written, cd_read>>
skVars == <<sk_skills, sk_last, sk_calls, sk_hist, sk_trans>>

rgVars == <<rg_registry, rg_skills, rg_last>>

plVars == <<pl_players, pl_db, pl_plugin, pl_leaked, pl_granted, pl_last>>

vars == <<cdVars, skVars, rgVars, plVars>>

(***************************************************************************)
(* Bounds of the model.                                                    *)
(***************************************************************************)
MaxTime == 3
MaxDuration == 2

Keys == {"attack", "ultimate"}

(***************************************************************************)
(* utilities.py: class CooldownDict(collections.defaultdict)               *)
(***************************************************************************)

\* CooldownDict.__init__: default_factory=int, and int() is 0.
default_factory == 0

NoSetItem(store, key, value, t) == [k \in DOMAIN store \cup {key} |->
    IF k = key THEN value ELSE store[k]]

\* CooldownDict.__setitem__(key, value): stores value + time.time(),
\* overwriting whatever the key held.
CooldownDict_setitem(store, key, value, t) == [k \in DOMAIN store \cup {key} |->
    IF k = key THEN value + t ELSE store[k]]

\* defaultdict.__missing__(key) as CooldownDict inherits it: the factory's
\* value is stored with self[key] = value, which is the overridden
\* __setitem__ (so what is stored is value + time.time()), and the factory's
\* value itself is returned.
defaultdict_missing(store, key, t) ==
    [store |-> CooldownDict_setitem(store, key, default_factory, t),
     value |-> default_factory]

\* dict.__getitem__ of a defaultdict: the stored value, or __missing__.
defaultdict_getitem(store, key, t) ==
    IF key \in DOMAIN store
    THEN [store |-> store, value |-> store[key]]
    ELSE defaultdict_missing(store, key, t)

NoSubGetItem(store, key, t) == defaultdict_getitem(store, key, t)

\* CooldownDict.__getitem__(key): super().__getitem__(key) - time.time().
CooldownDict_getitem(store, key, t) ==
    LET got == defaultdict_getitem(store, key, t)
    IN  [store |-> got.store, value |-> got.value - t]

NoRead == [key |-> "none"]

StartCooldown ==
    /\ cd_store = [k \in {} |-> 0]
    /\ now = 0
    /\ cd_written = [k \in Keys |-> <<>>]
    /\ cd_read = NoRead

\* cooldowns[key] = d at the current time.
CooldownSet(key, d) ==
    /\ cd_store' = CooldownDict_setitem(cd_store, key, d, now)
    /\ cd_written' = [cd_written EXCEPT ![key] = <<d, now, key \in DOMAIN cd_store>>]
    /\ cd_read' = NoRead
    /\ UNCHANGED <<now, skVars, rgVars, plVars>>

\* cooldowns[key] read at the current time.
CooldownGet(key) ==
    LET got == CooldownDict_getitem(cd_store, key, now)
    IN  /\ cd_store' = got.store
        /\ cd_read' = [key |-> key, value |-> got.value, t |-> now,
                       fresh |-> key \notin DOMAIN cd_store]
        /\ UNCHANGED <<now, cd_written, skVars, rgVars, plVars>>

\* The clock advances; it never goes back.
ClockTick ==
    /\ now < MaxTime
    /\ now' = now + 1
    /\ UNCHANGED <<cd_store, cd_written, cd_read, skVars, rgVars, plVars>>

(***************************************************************************)
(* entities/skill.py: the callback registry of a skill class               *)
(***************************************************************************)

\* Skill classes as declared: the metaclass that initializes the class, the
\* class it derives from, and the attributes of the class body, in the order
\* the body gives them.  An attribute is tagged when Skill.event_callback(...)
\* decorated it; events are the names it was tagged with.  max_level and
\* required_level are the class attributes the upgrade rules read.  Skill
\* and RepeatSkill are the classes of skill.py; Strike and Aura are the
\* skills of the heroes, Frenzy and Nova classes derived from them.
SkillClasses == [
    Skill |-> [meta |-> "_SkillMeta", base |-> "Entity",
               max_level |-> 0, required_level |-> 0,
               attrs |-> <<
        [name |-> "__init__", tagged |-> FALSE, events |-> <<>>],
        [name |-> "event_callback", tagged |-> FALSE, events |-> <<>>],
        [name |-> "execute", tagged |-> FALSE, events |-> <<>>] >>],
    RepeatSkill |-> [meta |-> "_RepeatSkillMeta", base |-> "Skill",
                     max_level |-> 0, required_level |-> 0,
                     attrs |-> <<
        [name |-> "__init__", tagged |-> FALSE, events |-> <<>>],
        [name |-> "level", tagged |-> FALSE, events |-> <<>>],
        [name |-> "_start_repeat", tagged |-> FALSE, events |-> <<>>],
        [name |-> "_stop_repeat", tagged |-> FALSE, events |-> <<>>],
        [name |-> "_tick", tagged |-> FALSE, events |-> <<>>] >>],
    Frenzy |-> [meta |-> "_SkillMeta", base |-> "Strike",
                max_level |-> 1, required_level |-> 0,
                attrs |-> <<
        [name |-> "_on_frenzy_kill", tagged |-> TRUE,
         events |-> <<"player_kill">>] >>],
    Nova |-> [meta |-> "_RepeatSkillMeta", base |-> "Aura",
              max_level |-> 1, required_level |-> 0,
              attrs |-> <<
        [name |-> "_on_nova_spawn", tagged |-> TRUE,
         events |-> <<"player_spawn">>],
        [name |-> "_tick", tagged |-> FALSE, events |-> <<>>] >>],
    Strike |-> [meta |-> "_SkillMeta", base |-> "Skill",
                max_level |-> 1, required_level |-> 0,
                attrs |-> <<
        [name |-> "_on_attack", tagged |-> TRUE,
         events |-> <<"player_attack", "player_spawn">>],
        [name |-> "max_level", tagged |-> FALSE, events |-> <<>>],
        [name |-> "_on_spawn", tagged |-> TRUE,
         events |-> <<"player_spawn">>] >>],
    Aura |-> [meta |-> "_RepeatSkillMeta", base |-> "RepeatSkill",
              max_level |-> 1, required_level |-> 0,
              attrs |-> <<
        [name |-> "_on_aura_spawn", tagged |-> TRUE,
         events |-> <<"player_spawn">>],
        [name |-> "_tick", tagged |-> FALSE, events |-> <<>>],
        [name |-> "_on_aura_death", tagged |-> TRUE,
         events |-> <<"player_death">>] >>] ]

\* The callbacks skill authors wrote; any of them may raise.
AuthorCallbacks == {"_on_attack", "_on_spawn", "_on_aura_spawn", "_on_aura_death"}

\* cls._event_callbacks[event_name].append(attr) on a defaultdict(list).
RegistryAppend(reg, event_name, attr) ==
    [e \in DOMAIN reg \cup {event_name} |->
        IF e = event_name
        THEN (IF e \in DOMAIN reg THEN Append(reg[e], attr) ELSE <<attr>>)
        ELSE reg[e]]

RECURSIVE RegisterEvents(_, _, _, _)
\* for event_name in attr._events: cls._event_callbacks[event_name].append(attr)
RegisterEvents(reg, attr, events, k) ==
    IF k > Len(events) THEN reg
    ELSE RegisterEvents(RegistryAppend(reg, events[k], attr), attr, events, k + 1)

RECURSIVE RegisterAttrs(_, _, _)
\* for attr in attrs.values(): untagged attributes are skipped.
RegisterAttrs(reg, attrs, k) ==
    IF k > Len(attrs) THEN reg
    ELSE IF ~attrs[k].tagged THEN RegisterAttrs(reg, attrs, k + 1)
    ELSE RegisterAttrs(RegisterEvents(reg, attrs[k].name, attrs[k].events, 1),
                       attrs, k + 1)

\* _SkillMeta.__init__: a fresh registry filled from the class body.
SkillMeta_init(attrs) == RegisterAttrs([e \in {} |-> <<>>], attrs, 1)

\* _RepeatSkillMeta.__init__: the base rule, then the start-tick callback is
\* appended for 'player_spawn' and the stop-tick callback for 'player_death'.
RepeatSkillMeta_init(attrs) ==
    RegistryAppend(
        RegistryAppend(SkillMeta_init(attrs), "player_spawn", "_start_repeat"),
        "player_death", "_stop_repeat")

\* type(self)._event_callbacks
event_callbacks(cls) ==
    IF SkillClasses[cls].meta = "_RepeatSkillMeta"
    THEN RepeatSkillMeta_init(SkillClasses[cls].attrs)
    ELSE SkillMeta_init(SkillClasses[cls].attrs)

(***************************************************************************)
(* The tick of a repeating skill.  Repeat is the host's listeners.tick     *)
(* class: status is its RepeatStatus, delays the scheduled tick tasks it   *)
(* holds.  start() on a RUNNING repeat and stop() on one that is not       *)
(* RUNNING return without doing anything.                                  *)
(***************************************************************************)
NoRepeat == [status |-> "NONE", delays |-> 0]

\* Repeat(self._tick)
Repeat_init == [status |-> "STOPPED", delays |-> 0]

\* Repeat.start(1, 0)
Repeat_start(r) ==
    IF r.status = "RUNNING" THEN r
    ELSE [status |-> "RUNNING", delays |-> r.delays + 1]

\* Repeat.stop()
Repeat_stop(r) ==
    IF r.status # "RUNNING" THEN r
    ELSE [status |-> "STOPPED", delays |-> r.delays - 1]

(***************************************************************************)
(* Skill instances: [cls, level, repeat]                                   *)
(***************************************************************************)

\* Entity.__init__(owner, level): the level is stored as given.
Entity_init(cls, level) == [cls |-> cls, level |-> level, repeat |-> NoRepeat]

\* Skill.__init__ / RepeatSkill.__init__: a repeating skill gets its Repeat.
Skill_init(cls, level) ==
    IF SkillClasses[cls].meta = "_RepeatSkillMeta"
    THEN [Entity_init(cls, level) EXCEPT !.repeat = Repeat_init]
    ELSE Entity_init(cls, level)

\* The setter function of the level property of Entity, called with the
\* positional arguments args: it takes (self, value) and, as any Python
\* function, raises TypeError when called with another number of them.
Entity_level_fset(args) ==
    IF Len(args) # 2 THEN [raised |-> "TypeError", self |-> args[1]]
    ELSE [raised |-> "none", self |-> [args[1] EXCEPT !.level = args[2]]]

RepeatSkill_start_repeat_fresh(skill) ==
    [skill EXCEPT !.repeat = [status |-> "RUNNING", delays |-> @.delays + 1]]

\* RepeatSkill._start_repeat
RepeatSkill_start_repeat(skill) ==
    [skill EXCEPT !.repeat = Repeat_start(@)]

\* RepeatSkill._stop_repeat
RepeatSkill_stop_repeat(skill) ==
    [skill EXCEPT !.repeat = Repeat_stop(@)]

\* RepeatSkill.level's setter: Skill.level.fset(value) passes the value alone,
\* so the call raises before anything is stored or the tick is touched.
RepeatSkill_level_fset(skill, value) ==
    LET base == Entity_level_fset(<<value>>)
    IN  IF base.raised # "none"
        THEN [skill |-> skill, raised |-> base.raised]
        ELSE IF value = 0
        THEN [skill |-> RepeatSkill_stop_repeat(skill), raised |-> "none"]
        ELSE IF skill.repeat.status = "STOPPED"
        THEN [skill |-> [skill EXCEPT !.repeat = Repeat_start(@)],
              raised |-> "none"]
        ELSE [skill |-> skill, raised |-> "none"]

\* skill.level = value: the property of the instance's class is used.
Skill_set_level(skill, value) ==
    IF SkillClasses[skill.cls].meta = "_RepeatSkillMeta"
    THEN RepeatSkill_level_fset(skill, value)
    ELSE LET base == Entity_level_fset(<<skill, value>>)
         IN  [skill |-> base.self, raised |-> base.raised]

\* callback(self, **event_args): the two injected callbacks act on the tick;
\* an author's callback either returns or, when it is the one chosen as bad
\* for this delivery, raises.
Callback(name, skill, bad) ==
    IF name = "_start_repeat"
    THEN [skill |-> RepeatSkill_start_repeat(skill), raised |-> "none"]
    ELSE IF name = "_stop_repeat"
    THEN [skill |-> RepeatSkill_stop_repeat(skill), raised |-> "none"]
    ELSE [skill |-> skill, raised |-> IF name = bad THEN "Error" ELSE "none"]

RECURSIVE RunCallbacks(_, _, _, _, _)
\* for callback in type(self)._event_callbacks[event_name]: a callback that
\* raises ends the loop, and the exception leaves execute.
RunCallbacks(skill, callbacks, k, bad, calls) ==
    IF k > Len(callbacks)
    THEN [skill |-> skill, calls |-> calls, raised |-> "none"]
    ELSE LET Called(r) ==
                 IF r.raised # "none"
                 THEN [skill |-> r.skill, calls |-> Append(calls, callbacks[k]),
                       raised |-> r.raised]
                 ELSE RunCallbacks(r.skill, callbacks, k + 1, bad,
                                   Append(calls, callbacks[k]))
         IN  Called(Callback(callbacks[k], skill, bad))

\* d[key] of a defaultdict(list): a key the dict does not have is put in
\* with list() as its value.
defaultdict_list_getitem(registry, key) ==
    IF key \in DOMAIN registry
    THEN [registry |-> registry, value |-> registry[key]]
    ELSE [registry |-> [e \in DOMAIN registry \cup {key} |->
                           IF e = key THEN <<>> ELSE registry[e]],
          value |-> <<>>]

Skill_execute_unchecked(registry, skill, event_name, bad) ==
    LET Ran(found, r) ==
            [skill |-> r.skill, calls |-> r.calls, raised |-> r.raised,
             registry |-> found.registry]
        Found(found) == Ran(found, RunCallbacks(skill, found.value, 1, bad, <<>>))
    IN  Found(defaultdict_list_getitem(registry, event_name))

\* Skill.execute(event_name, event_args), registry being
\* type(self)._event_callbacks: what execute does to the skill, the
\* callbacks it called, and the registry as execute leaves it.
Skill_execute_on(registry, skill, event_name, bad) ==
    LET Ran(found, r) ==
            [skill |-> r.skill, calls |-> r.calls, raised |-> r.raised,
             registry |-> found.registry]
        Found(found) == Ran(found, RunCallbacks(skill, found.value, 1, bad, <<>>))
    IN  IF event_name \notin DOMAIN registry
        THEN [skill |-> skill, calls |-> <<>>, raised |-> "none",
              registry |-> registry]
        ELSE Found(defaultdict_list_getitem(registry, event_name))

\* skill.execute(event_name, event_args) on a skill of a hero.
Skill_execute(skill, event_name, bad) ==
    Skill_execute_on(event_callbacks(skill.cls), skill, event_name, bad)

RECURSIVE ExecuteSkillsFrom(_, _, _, _, _)
ExecuteSkillsFrom(skills, k, event_name, bad, calls) ==
    IF k > Len(skills)
    THEN [skills |-> skills, calls |-> calls, raised |-> "none"]
    ELSE LET Executed(r) ==
                 IF r.raised # "none"
                 THEN [skills |-> [skills EXCEPT ![k] = r.skill],
                       calls |-> calls \o [j \in 1..Len(r.calls) |-> <<k, r.calls[j]>>],
                       raised |-> r.raised]
                 ELSE ExecuteSkillsFrom([skills EXCEPT ![k] = r.skill], k + 1,
                          event_name, bad,
                          calls \o [j \in 1..Len(r.calls) |-> <<k, r.calls[j]>>])
         IN  Executed(Skill_execute(skills[k], event_name, bad))

\* Hero.execute_skills(event_name, event_args): every skill's execute, in
\* the order of hero.skills.
Hero_execute_skills(skills, event_name, bad) ==
    ExecuteSkillsFrom(skills, 1, event_name, bad, <<>>)

(***************************************************************************)
(* SpecSkill: a hero with a plain and a repeating skill.                   *)
(***************************************************************************)
MaxLevel == 2

Events == {"player_spawn", "player_death", "player_attack", "player_jump"}

\* In a delivery, the author callback that raises, if any.
BadChoices == AuthorCallbacks \cup {"none"}

NoOp == [op |-> "none"]

\* Which transition of the tick an operation made on a skill, if any.
Transition(before, after) ==
    IF after.repeat.delays > before.repeat.delays THEN <<"start">>
    ELSE IF after.repeat.delays < before.repeat.delays THEN <<"stop">>
    ELSE <<>>

LastTwo(s) == IF Len(s) <= 2 THEN s ELSE SubSeq(s, Len(s) - 1, Len(s))
LastThree(s) == IF Len(s) <= 3 THEN s ELSE SubSeq(s, Len(s) - 2, Len(s))

Transitions(before, after) ==
    [i \in 1..Len(before) |-> LastTwo(sk_trans[i] \o Transition(before[i], after[i]))]

\* A hero whose skills were constructed with the levels l1 and l2.
StartSkill(l1, l2) ==
    /\ sk_skills = <<Skill_init("Strike", l1), Skill_init("Aura", l2)>>
    /\ sk_last = NoOp
    /\ sk_calls = <<>>
    /\ sk_hist = <<>>
    /\ sk_trans = <<<<>>, <<>>>>

\* skill.execute(event_name, event_args) on one skill of the hero.
SkillExecute(i, event_name, bad) ==
    \E r \in {Skill_execute(sk_skills[i], event_name, bad)} :
        /\ sk_skills' = [sk_skills EXCEPT ![i] = r.skill]
        /\ sk_last' = [op |-> "execute", skill |-> i, ev |-> event_name,
                       bad |-> bad, raised |-> r.raised,
                       pre |-> sk_skills[i].repeat]
        /\ sk_calls' = [j \in 1..Len(r.calls) |-> <<i, r.calls[j]>>]
        /\ sk_hist' = IF /\ sk_skills[i].repeat.status # "NONE"
                         /\ event_name \in {"player_spawn", "player_death"}
                         /\ r.raised = "none"
                      THEN LastThree(Append(sk_hist,
                               [ev |-> event_name, pre |-> sk_skills[i].repeat.status,
                                post |-> r.skill.repeat.status]))
                      ELSE <<>>
        /\ sk_trans' = Transitions(sk_skills, sk_skills')
        /\ UNCHANGED <<cdVars, rgVars, plVars>>

\* hero.execute_skills(event_name, event_args)
HeroExecuteSkills(event_name, bad) ==
    \E r \in {Hero_execute_skills(sk_skills, event_name, bad)} :
        /\ sk_skills' = r.skills
        /\ sk_last' = [op |-> "execute_skills", ev |-> event_name,
                       bad |-> bad, raised |-> r.raised]
        /\ sk_calls' = r.calls
        /\ sk_hist' = <<>>
        /\ sk_trans' = Transitions(sk_skills, sk_skills')
        /\ UNCHANGED <<cdVars, rgVars, plVars>>

\* skill.level = value
SkillSetLevel(i, value) ==
    \E r \in {Skill_set_level(sk_skills[i], value)} :
        /\ sk_skills' = [sk_skills EXCEPT ![i] = r.skill]
        /\ sk_last' = [op |-> "set_level", skill |-> i, value |-> value,
                       raised |-> r.raised, pre |-> sk_skills[i].repeat]
        /\ sk_calls' = <<>>
        /\ sk_hist' = <<>>
        /\ sk_trans' = Transitions(sk_skills, sk_skills')
        /\ UNCHANGED <<cdVars, rgVars, plVars>>

(***************************************************************************)
(* Heroes and players.  warcraft.heroes, entities/hero.py and player.py    *)
(* hold the hero classes, Hero and Player; what the plugin needs of them   *)
(* follows the hero and player rules of the design (sections 3 and 4.5).   *)
(***************************************************************************)

\* g_heroes: the hero classes by class_id, ordered by required_level.
HeroOrder == <<"Fighter", "Shaman">>

HeroClasses == [
    Fighter |-> [required_level |-> 0, skill_classes |-> <<"Strike">>],
    Shaman  |-> [required_level |-> 1, skill_classes |-> <<"Aura">>] ]

HeroIds == {HeroOrder[k] : k \in 1..Len(HeroOrder)}

\* The xp a hero needs to have reached each level 1, 2, ...
XpTable == <<30, 90>>

LevelForXp(xp) == Cardinality({k \in 1..Len(XpTable) : XpTable[k] <= xp})

\* Hero(owner, level, xp): one skill instance per skill class, at level 0.
Hero_init(cls, level, xp) ==
    [cls |-> cls, level |-> level, xp |-> xp,
     skills |-> [k \in 1..Len(HeroClasses[cls].skill_classes) |->
                    Skill_init(HeroClasses[cls].skill_classes[k], 0)]]

\* hero.xp += amount: the level follows the threshold table.
Hero_give_xp(hero, amount) ==
    [hero EXCEPT !.xp = @ + amount,
                 !.level = IF LevelForXp(hero.xp + amount) > @
                           THEN LevelForXp(hero.xp + amount) ELSE @]

RECURSIVE SumLevels(_, _)
SumLevels(seq, k) == IF k > Len(seq) THEN 0 ELSE seq[k].level + SumLevels(seq, k + 1)

\* Hero.skill_points: the levels gained and not yet spent on skills.
Hero_skill_points(hero) == hero.level - SumLevels(hero.skills, 1)

\* Hero.can_upgrade_skill(skill)
Hero_can_upgrade_skill(hero, k) ==
    /\ hero.skills[k].level < SkillClasses[hero.skills[k].cls].max_level
    /\ hero.level >= SkillClasses[hero.skills[k].cls].required_level
    /\ Hero_skill_points(hero) > 0

\* Player(index): no heroes yet and no active hero.  heroes keeps the order
\* in which the heroes were put in; hero is the class_id of the active one.
Player_init == [hero |-> "none", heroes |-> <<>>]

Owns(player, hero_id) == \E k \in 1..Len(player.heroes) : player.heroes[k].cls = hero_id

HeroIndex(player, hero_id) ==
    CHOOSE k \in 1..Len(player.heroes) : player.heroes[k].cls = hero_id

\* player.hero
ActiveHero(player) == player.heroes[HeroIndex(player, player.hero)]

\* Player.calculate_total_level()
calculate_total_level(player) == SumLevels(player.heroes, 1)

(***************************************************************************)
(* The database (warcraft.database.SQLite): the three tables, keyed as the *)
(* rows are.  players: steamid -> active hero id; heroes: steamid ->       *)
(* hero id -> <<level, xp>>; skills: steamid -> hero id -> skill id ->     *)
(* level.  A missing row is a key outside the DOMAIN.                      *)
(***************************************************************************)
Indexes == {1, 2}

\* A player's steamid: the model gives the player at index i the id i.
SteamId(index) == index

EmptyMap == [k \in {} |-> 0]

Put(f, key, value) == [k \in DOMAIN f \cup {key} |-> IF k = key THEN value ELSE f[k]]

\* A hero id of rows an earlier version of the plugin stored: g_heroes has
\* no class for it.
UnknownHeroId == "Retired"

\* The hero ids rows can have, in the order get_heroes_data returns them.
RowOrder == HeroOrder \o <<UnknownHeroId>>

RowIds == {RowOrder[k] : k \in 1..Len(RowOrder)}

EmptyTables == [players |-> EmptyMap,
                heroes |-> [s \in Indexes |-> EmptyMap],
                skills |-> [s \in Indexes |-> [h \in RowIds |-> EmptyMap]]]

\* The rows as the connection sees them (players, heroes, skills) and the
\* rows the last commit made durable.
EmptyDb == [players |-> EmptyTables.players,
            heroes |-> EmptyTables.heroes,
            skills |-> EmptyTables.skills,
            durable |-> EmptyTables]

\* The rows the connection sees.
Tables(db) == [players |-> db.players, heroes |-> db.heroes, skills |-> db.skills]

\* g_database.save_player((steamid, hero_id))
Db_save_player(db, row) == [db EXCEPT !.players = Put(@, row[1], row[2])]

\* g_database.save_hero((steamid, hero_id, level, xp))
Db_save_hero(db, row) ==
    [db EXCEPT !.heroes[row[1]] = Put(@, row[2], <<row[3], row[4]>>)]

RECURSIVE Db_save_skills(_, _, _)
\* g_database.save_skills(rows of (steamid, hero_id, skill_id, level))
Db_save_skills(db, rows, k) ==
    IF k > Len(rows) THEN db
    ELSE Db_save_skills(
            [db EXCEPT !.skills[rows[k][1]][rows[k][2]] = Put(@, rows[k][3], rows[k][4])],
            rows, k + 1)

RECURSIVE Db_save_players(_, _, _)
Db_save_players(db, rows, k) ==
    IF k > Len(rows) THEN db
    ELSE Db_save_players(Db_save_player(db, rows[k]), rows, k + 1)

RECURSIVE Db_save_heroes(_, _, _)
Db_save_heroes(db, rows, k) ==
    IF k > Len(rows) THEN db
    ELSE Db_save_heroes(Db_save_hero(db, rows[k]), rows, k + 1)

\* g_database.get_heroes_data(steamid): the (hero_id, level, xp) rows.
RECURSIVE HeroRowsFrom(_, _, _)
HeroRowsFrom(db, steamid, k) ==
    IF k > Len(RowOrder) THEN <<>>
    ELSE (IF RowOrder[k] \in DOMAIN db.heroes[steamid]
          THEN <<<<RowOrder[k], db.heroes[steamid][RowOrder[k]][1],
                   db.heroes[steamid][RowOrder[k]][2]>>>>
          ELSE <<>>) \o HeroRowsFrom(db, steamid, k + 1)

Db_get_heroes_data(db, steamid) == HeroRowsFrom(db, steamid, 1)

\* g_database.get_skills_data(steamid, hero_id) as the dict _new_player makes.
Db_get_skills_data(db, steamid, hero_id) == db.skills[steamid][hero_id]

\* g_database.get_active_hero_id(steamid): None when there is no row.
Db_get_active_hero_id(db, steamid) ==
    IF steamid \in DOMAIN db.players THEN db.players[steamid] ELSE "none"

(***************************************************************************)
(* warcraft.py: loading and saving                                         *)
(***************************************************************************)

RECURSIVE LoadSkills(_, _, _)
\* for skill in hero.skills: if skill.class_id in skill_datas:
\*     skill.level = skill_datas[skill.class_id]
LoadSkills(skills, skill_datas, k) ==
    IF k > Len(skills) THEN [skills |-> skills, raised |-> "none"]
    ELSE IF skills[k].cls \notin DOMAIN skill_datas
    THEN LoadSkills(skills, skill_datas, k + 1)
    ELSE LET Assigned(r) ==
                 IF r.raised # "none"
                 THEN [skills |-> skills, raised |-> r.raised]
                 ELSE LoadSkills([skills EXCEPT ![k] = r.skill], skill_datas, k + 1)
         IN  Assigned(Skill_set_level(skills[k], skill_datas[skills[k].cls]))

RECURSIVE LoadHeroes(_, _, _, _, _)
\* for hero_id, level, xp in g_database.get_heroes_data(steamid): ...
LoadHeroes(db, steamid, rows, k, player) ==
    IF k > Len(rows) THEN [player |-> player, raised |-> "none"]
    ELSE IF rows[k][1] \notin HeroIds
    THEN LoadHeroes(db, steamid, rows, k + 1, player)
    ELSE LET Loaded(hero, r) ==
                 IF r.raised # "none"
                 THEN [player |-> player, raised |-> r.raised]
                 ELSE LoadHeroes(db, steamid, rows, k + 1,
                        [player EXCEPT !.heroes =
                            Append(@, [hero EXCEPT !.skills = r.skills])])
             Made(hero) ==
                 Loaded(hero, LoadSkills(hero.skills,
                            Db_get_skills_data(db, steamid, rows[k][1]), 1))
         IN  Made(Hero_init(rows[k][1], rows[k][2], rows[k][3]))

RECURSIVE GrantHeroes(_, _, _)
\* for hero_id, hero_class in g_heroes.items(): every hero not owned whose
\* required_level is at most total_level is given to the player.
GrantHeroes(player, total_level, k) ==
    IF k > Len(HeroOrder) THEN player
    ELSE IF Owns(player, HeroOrder[k]) THEN GrantHeroes(player, total_level, k + 1)
    ELSE IF HeroClasses[HeroOrder[k]].required_level <= total_level
    THEN GrantHeroes([player EXCEPT !.heroes = Append(@, Hero_init(HeroOrder[k], 0, 0))],
                     total_level, k + 1)
    ELSE GrantHeroes(player, total_level, k + 1)

\* _new_player(index)
new_player(db, index) ==
    LET Activate(player, active_hero_id) ==
            IF active_hero_id # "none" /\ Owns(player, active_hero_id)
            THEN [player |-> [player EXCEPT !.hero = active_hero_id],
                  raised |-> "none"]
            ELSE IF player.heroes = <<>>
            THEN [player |-> player, raised |-> "StopIteration"]
            ELSE [player |-> [player EXCEPT !.hero = player.heroes[1].cls],
                  raised |-> "none"]
        Granted(loaded) ==
            IF loaded.raised # "none" THEN loaded
            ELSE Activate(GrantHeroes(loaded.player,
                                      calculate_total_level(loaded.player), 1),
                          Db_get_active_hero_id(db, SteamId(index)))
    IN  Granted(LoadHeroes(db, SteamId(index),
                           Db_get_heroes_data(db, SteamId(index)), 1, Player_init))

\* _serialize_player_data(player): the rows of the active hero.
serialize_player_data(index, player) ==
    LET Rows(steamid, hero) ==
            [player |-> <<steamid, hero.cls>>,
             hero |-> <<steamid, hero.cls, hero.level, hero.xp>>,
             skills |-> [k \in 1..Len(hero.skills) |->
                            <<steamid, hero.cls, hero.skills[k].cls,
                              hero.skills[k].level>>]]
    IN  Rows(SteamId(index), ActiveHero(player))

(***************************************************************************)
(* What a handler works on: g_players, the database, the tick tasks of     *)
(* discarded players, and the record of what was done (log).               *)
(***************************************************************************)
NoPlayer == [hero |-> "absent", heroes |-> <<>>]

Logged(ctx, entry) == [ctx EXCEPT !.log = Append(@, entry)]

\* g_database.commit(): the rows the connection sees become durable.
Db_commit(ctx) ==
    [ctx EXCEPT !.db.durable = Tables(ctx.db), !.log = Append(@, <<"commit">>)]

\* g_database.close(), when the statements before it raised nothing.
Db_close(ctx) ==
    IF ctx.raised # "none" THEN ctx ELSE Logged(ctx, <<"close">>)



\* A call g_database.<op>(rows) in a save function, db being the rows after
\* it: the storage raises instead when op is the write that fails in this
\* handler run (ctx.fail), and a statement after a raise is not reached.
g_database_write(ctx, op, who, db) ==
    IF ctx.raised # "none" THEN ctx
    ELSE IF ctx.fail = op
    THEN [ctx EXCEPT !.raised = "StorageError",
                     !.log = Append(@, <<"failed", op, who>>)]
    ELSE [ctx EXCEPT !.db = db, !.log = Append(@, <<op, who>>)]

save_player_data_uncommitted(ctx, index, commit) ==
    LET Player(c, data) ==
            g_database_write(c, "save_player", SteamId(index),
                             Db_save_player(c.db, data.player))
        Hero(c, data) ==
            g_database_write(c, "save_hero", SteamId(index),
                             Db_save_hero(c.db, data.hero))
        Skills(c, data) ==
            g_database_write(c, "save_skills", SteamId(index),
                             Db_save_skills(c.db, data.skills, 1))
        Saved(data) == Skills(Hero(Player(ctx, data), data), data)
    IN  Saved(serialize_player_data(index, ctx.players[index]))

\* _save_player_data(player, *, commit=True)
save_player_data(ctx, index, commit) ==
    LET Committed(c) == IF commit /\ c.raised = "none" THEN Db_commit(c) ELSE c
        Player(c, data) ==
            g_database_write(c, "save_player", SteamId(index),
                             Db_save_player(c.db, data.player))
        Hero(c, data) ==
            g_database_write(c, "save_hero", SteamId(index),
                             Db_save_hero(c.db, data.hero))
        Skills(c, data) ==
            g_database_write(c, "save_skills", SteamId(index),
                             Db_save_skills(c.db, data.skills, 1))
        Saved(data) == Committed(Skills(Hero(Player(ctx, data), data), data))
    IN  Saved(serialize_player_data(index, ctx.players[index]))

\* g_players.values(), by index
RECURSIVE PresentFrom(_, _)
PresentFrom(players, i) ==
    IF i > Cardinality(Indexes) THEN <<>>
    ELSE (IF players[i] # NoPlayer THEN <<i>> ELSE <<>>) \o PresentFrom(players, i + 1)

RECURSIVE Flatten(_, _)
Flatten(lists, k) == IF k > Len(lists) THEN <<>> ELSE lists[k] \o Flatten(lists, k + 1)

\* _save_all_data once zip(*datas) has given the three row collections:
\* the rows are flattened and written, and the commit follows.
write_all_data(ctx, commit) ==
    LET Committed(c) == IF commit /\ c.raised = "none" THEN Db_commit(c) ELSE c
        Players(c, ids, datas) ==
            g_database_write(c, "save_players", ids,
                Db_save_players(c.db, [k \in 1..Len(datas) |-> datas[k].player], 1))
        Heroes(c, ids, datas) ==
            g_database_write(c, "save_heroes", ids,
                Db_save_heroes(c.db, [k \in 1..Len(datas) |-> datas[k].hero], 1))
        Skills(c, ids, datas) ==
            g_database_write(c, "save_skills", ids,
                Db_save_skills(c.db,
                    Flatten([k \in 1..Len(datas) |-> datas[k].skills], 1), 1))
        Saved(ids, datas) ==
            Committed(Skills(Heroes(Players(ctx, ids, datas), ids, datas),
                             ids, datas))
        Serialized(present) ==
            Saved([k \in 1..Len(present) |-> SteamId(present[k])],
                  [k \in 1..Len(present) |->
                      serialize_player_data(present[k], ctx.players[present[k]])])
    IN  Serialized(PresentFrom(ctx.players, 1))

save_all_data_unguarded(ctx, commit) == write_all_data(ctx, commit)

\* _save_all_data(*, commit=True): zip(*datas) of no players gives nothing
\* to unpack, and the ValueError ends the function before any write.
save_all_data(ctx, commit) ==
    IF PresentFrom(ctx.players, 1) = <<>> THEN ctx
    ELSE write_all_data(ctx, commit)

\* g_players[index] / g_players.from_userid(userid): a PlayerDictionary
\* builds a missing player with _new_player and keeps it; when _new_player
\* raises nothing is kept and the exception reaches the caller.
GetPlayer(ctx, index) ==
    IF ctx.players[index] # NoPlayer THEN ctx
    ELSE LET Kept(r) ==
                 IF r.raised # "none"
                 THEN [Logged(ctx, <<"load", SteamId(index), r.raised>>)
                         EXCEPT !.raised = r.raised]
                 ELSE [Logged(ctx, <<"load", SteamId(index), "ok">>)
                         EXCEPT !.players[index] = r.player]
         IN  Kept(new_player(ctx.db, index))

\* The players an event_args dict names: the index of the Player under
\* 'player', 'attacker' and 'victim', 0 for a key the dict does not have.
EventArgs(player, attacker, victim) ==
    [player |-> player, attacker |-> attacker, victim |-> victim]

\* <player at index>.hero.execute_skills(event_name, event_args)
DeliverToHero(ctx, index, event_name, event_args, bad) ==
    LET Delivered(k, r) ==
            [ctx EXCEPT !.players[index].heroes[k].skills = r.skills,
                        !.log = Append(@, <<"deliver", index,
                                            ctx.players[index].hero, event_name,
                                            event_args>>),
                        !.raised = r.raised]
        Executed(k) ==
            Delivered(k, Hero_execute_skills(ctx.players[index].heroes[k].skills,
                                             event_name, bad))
    IN  Executed(HeroIndex(ctx.players[index], ctx.players[index].hero))

\* How many tick tasks of the player's heroes are scheduled.
RECURSIVE RunningIn(_, _)
RunningIn(skills, k) ==
    IF k > Len(skills) THEN 0 ELSE skills[k].repeat.delays + RunningIn(skills, k + 1)

RECURSIVE RunningTicks(_, _)
RunningTicks(player, k) ==
    IF k > Len(player.heroes) THEN 0
    ELSE RunningIn(player.heroes[k].skills, 1) + RunningTicks(player, k + 1)

\* A handler that raised ends there; the host logs the exception and goes
\* on with the event's next handler.
Handled(ctx, handler) ==
    IF ctx.raised = "none" THEN ctx
    ELSE [Logged(ctx, <<"raised", handler, ctx.raised>>) EXCEPT !.raised = "none"]

\* @Event('player_disconnect') _save_disconnecters_data
save_disconnecters_data(ctx, index) ==
    LET Deleted(saved) ==
            IF saved.raised # "none" THEN saved
            ELSE [saved EXCEPT !.players[index] = NoPlayer,
                               !.leaked = @ + RunningTicks(ctx.players[index], 1)]
    IN  IF ctx.players[index] = NoPlayer THEN ctx
        ELSE Deleted(save_player_data(ctx, index, TRUE))

execute_individual_skills_any_team(ctx, event_name, index, team, bad) ==
    LET Found(c) ==
            IF c.raised # "none" THEN c
            ELSE DeliverToHero(c, index, event_name, EventArgs(index, 0, 0), bad)
    IN  Found(GetPlayer(ctx, index))

\* @Event('player_jump', 'player_spawn', 'player_disconnect')
\* _execute_individual_skills
execute_individual_skills(ctx, event_name, index, team, bad) ==
    LET Found(c) ==
            IF c.raised # "none" THEN c
            ELSE IF team \in {2, 3}
            THEN DeliverToHero(c, index, event_name, EventArgs(index, 0, 0), bad)
            ELSE c
    IN  Found(GetPlayer(ctx, index))

\* _event_name_conversions
event_name_conversions == [
    player_death |-> <<"player_kill", "player_death">>,
    player_hurt  |-> <<"player_attack", "player_victim">> ]

execute_interaction_skills_victim_first(ctx, event_name, userid, attacker, bad) ==
    LET ToAttacker(c3) ==
            IF c3.raised # "none" THEN c3
            ELSE DeliverToHero(c3, attacker, event_name_conversions[event_name][1],
                               EventArgs(attacker, attacker, userid), bad)
        ToVictim(c2) ==
            IF c2.raised # "none" THEN c2
            ELSE ToAttacker(DeliverToHero(c2, userid,
                                event_name_conversions[event_name][2],
                                EventArgs(userid, attacker, userid), bad))
        FoundAttacker(c1) ==
            IF c1.raised # "none" THEN c1
            ELSE ToVictim(GetPlayer(c1, userid))
    IN  IF attacker = 0 \/ attacker = userid THEN ctx
        ELSE FoundAttacker(GetPlayer(ctx, attacker))

\* @Event('player_death', 'player_hurt') _execute_interaction_skills
execute_interaction_skills(ctx, event_name, userid, attacker, bad) ==
    LET ToVictim(c3) ==
            IF c3.raised # "none" THEN c3
            ELSE DeliverToHero(c3, userid, event_name_conversions[event_name][2],
                               EventArgs(userid, attacker, userid), bad)
        ToAttacker(c2) ==
            IF c2.raised # "none" THEN c2
            ELSE ToVictim(DeliverToHero(c2, attacker,
                              event_name_conversions[event_name][1],
                              EventArgs(attacker, attacker, userid), bad))
        FoundAttacker(c1) ==
            IF c1.raised # "none" THEN c1
            ELSE ToAttacker(GetPlayer(c1, userid))
    IN  IF attacker = 0 \/ attacker = userid THEN ctx
        ELSE FoundAttacker(GetPlayer(ctx, attacker))

execute_pre_damage_skills_any_team(ctx, index, attacker, victim_team, attacker_team, bad) ==
    LET ToVictim(c3) ==
            IF c3.raised # "none" THEN c3
            ELSE DeliverToHero(c3, index, "pre_player_victim",
                               EventArgs(index, attacker, index), bad)
        ToAttacker(c2) ==
            IF c2.raised # "none" THEN c2
            ELSE ToVictim(DeliverToHero(c2, attacker, "pre_player_attack",
                              EventArgs(attacker, attacker, index), bad))
        FoundAttacker(c1) ==
            IF c1.raised # "none" THEN c1
            ELSE ToAttacker(GetPlayer(c1, index))
    IN  IF attacker = 0 THEN ctx
        ELSE FoundAttacker(GetPlayer(ctx, attacker))

\* @EntityPreHook(EntityCondition.is_player, 'on_take_damage')
\* _execute_pre_damage_skills: index is the entity taking the damage,
\* attacker is take_damage_info.attacker (0: no attacker).
execute_pre_damage_skills(ctx, index, attacker, victim_team, attacker_team, bad) ==
    LET ToVictim(c3) ==
            IF c3.raised # "none" THEN c3
            ELSE DeliverToHero(c3, index, "pre_player_victim",
                               EventArgs(index, attacker, index), bad)
        ToAttacker(c2) ==
            IF c2.raised # "none" THEN c2
            ELSE IF victim_team = attacker_team THEN c2
            ELSE ToVictim(DeliverToHero(c2, attacker, "pre_player_attack",
                              EventArgs(attacker, attacker, index), bad))
        FoundAttacker(c1) ==
            IF c1.raised # "none" THEN c1
            ELSE ToAttacker(GetPlayer(c1, index))
    IN  IF attacker = 0 THEN ctx
        ELSE FoundAttacker(GetPlayer(ctx, attacker))

KillXp == 30
HeadshotXp == 45

give_xp_from_kill_any_attacker(ctx, userid, attacker, headshot) ==
    LET Given(c) ==
            IF c.raised # "none" THEN c
            ELSE [c EXCEPT !.players[attacker].heroes[
                               HeroIndex(c.players[attacker],
                                         c.players[attacker].hero)] =
                      Hero_give_xp(@, IF headshot THEN HeadshotXp ELSE KillXp)]
    IN  IF attacker = 0 THEN ctx
        ELSE Given(GetPlayer(ctx, attacker))

give_xp_from_kill_flat(ctx, userid, attacker, headshot) ==
    LET Given(c) ==
            IF c.raised # "none" THEN c
            ELSE [c EXCEPT !.players[attacker].heroes[
                               HeroIndex(c.players[attacker],
                                         c.players[attacker].hero)] =
                      Hero_give_xp(@, KillXp)]
    IN  IF attacker = 0 \/ attacker = userid THEN ctx
        ELSE Given(GetPlayer(ctx, attacker))

\* @Event('player_death') _give_xp_from_kill
give_xp_from_kill(ctx, userid, attacker, headshot) ==
    LET Given(c) ==
            IF c.raised # "none" THEN c
            ELSE [c EXCEPT !.players[attacker].heroes[
                               HeroIndex(c.players[attacker],
                                         c.players[attacker].hero)] =
                      Hero_give_xp(@, IF headshot THEN HeadshotXp ELSE KillXp)]
    IN  IF attacker = 0 \/ attacker = userid THEN ctx
        ELSE Given(GetPlayer(ctx, attacker))

\* @Event('player_spawn') _send_hero_info_message: the player is looked up
\* and the message sent.
send_hero_info_message(ctx, index) == GetPlayer(ctx, index)

\* The host deletes the player's entity once the disconnect event has been
\* handled, and a PlayerDictionary drops the instance of a deleted entity.
on_entity_deleted(ctx, index) ==
    [ctx EXCEPT !.players[index] = NoPlayer,
                !.leaked = @ + RunningTicks(ctx.players[index], 1)]

(***************************************************************************)
(* Spec: the plugin under host events, menu selections and saves.          *)
(***************************************************************************)
MaxXpGranted == 45
MaxLeaked == 2

Teams == {1, 2, 3}

\* The positions a skill can have in a hero's skills.
SkillSlots == UNION {DOMAIN HeroClasses[h].skill_classes : h \in HeroIds}

\* Author callbacks do not raise in the plugin's deliveries; SpecSkill has
\* the deliveries in which one does.
PluginBad == {"none"}

Context == [players |-> pl_players, db |-> pl_db, leaked |-> pl_leaked,
            log |-> <<>>, raised |-> "none", fail |-> "none"]

\* The writes of the save functions.
Writes == {"save_player", "save_hero", "save_players", "save_heroes", "save_skills"}

\* The writes of _save_all_data, any of which the storage can fail.
BatchWrites == {"save_players", "save_heroes", "save_skills"}

\* The storage fails no write in the handler runs of Spec; SpecStore has the
\* runs in which one fails.
NoFail == {"none"}

\* A handler run in which the storage fails the write op.
ContextFailing(op) == [Context EXCEPT !.fail = op]

StartPlugin ==
    /\ pl_players = [i \in Indexes |-> NoPlayer]
    /\ pl_db = EmptyDb
    /\ pl_leaked = 0
    /\ pl_plugin = [loaded |-> TRUE, save_repeat |-> "RUNNING", db_open |-> TRUE]
    /\ pl_granted = 0
    /\ pl_last = [ev |-> "none"]

\* What every handler run leaves: the context it ended with.
Leaves(ctx) ==
    /\ pl_players' = ctx.players
    /\ pl_db' = ctx.db
    /\ pl_leaked' = ctx.leaked

\* The host fires player_spawn for the player at index, who is in team.
PlayerSpawn(index, team, bad) ==
    \E c1 \in {Handled(execute_individual_skills(Context, "player_spawn", index,
                                                 team, bad),
                       "_execute_individual_skills")} :
    \E c2 \in {Handled(send_hero_info_message(c1, index),
                       "_send_hero_info_message")} :
        /\ pl_plugin.loaded
        /\ Leaves(c2)
        /\ pl_last' = [ev |-> "player_spawn", userid |-> index,
                       playing |-> team \in {2, 3}, log |-> c2.log]
        /\ UNCHANGED <<pl_plugin, pl_granted, cdVars, skVars, rgVars>>

\* The host fires player_jump.
PlayerJump(index, team, bad) ==
    \E c1 \in {Handled(execute_individual_skills(Context, "player_jump", index,
                                                 team, bad),
                       "_execute_individual_skills")} :
        /\ pl_plugin.loaded
        /\ Leaves(c1)
        /\ pl_last' = [ev |-> "player_jump", userid |-> index,
                       playing |-> team \in {2, 3}, log |-> c1.log]
        /\ UNCHANGED <<pl_plugin, pl_granted, cdVars, skVars, rgVars>>

\* The xp a player_death event gives out.
XpOfKill(userid, attacker, headshot) ==
    IF attacker = 0 \/ attacker = userid THEN 0
    ELSE IF headshot THEN HeadshotXp ELSE KillXp

\* The host fires player_death: userid died, by attacker (0: nobody).
PlayerDeath(userid, attacker, headshot, bad) ==
    /\ pl_plugin.loaded
    /\ pl_granted + XpOfKill(userid, attacker, headshot) <= MaxXpGranted
    /\ \E c1 \in {Handled(execute_interaction_skills(Context, "player_death",
                                                     userid, attacker, bad),
                          "_execute_interaction_skills")} :
       \E c2 \in {Handled(give_xp_from_kill(c1, userid, attacker, headshot),
                          "_give_xp_from_kill")} :
            /\ Leaves(c2)
            /\ pl_last' = [ev |-> "player_death", userid |-> userid,
                           attacker |-> attacker, headshot |-> headshot,
                           log |-> c2.log]
    /\ pl_granted' = pl_granted + XpOfKill(userid, attacker, headshot)
    /\ UNCHANGED <<pl_plugin, cdVars, skVars, rgVars>>

\* The host fires player_hurt.
PlayerHurt(userid, attacker, bad) ==
    \E c1 \in {Handled(execute_interaction_skills(Context, "player_hurt", userid,
                                                  attacker, bad),
                       "_execute_interaction_skills")} :
        /\ pl_plugin.loaded
        /\ Leaves(c1)
        /\ pl_last' = [ev |-> "player_hurt", userid |-> userid,
                       attacker |-> attacker, log |-> c1.log]
        /\ UNCHANGED <<pl_plugin, pl_granted, cdVars, skVars, rgVars>>

\* The teams of players that can take damage.
PlayingTeams == {2, 3}

\* The host is about to apply damage to the player at index: the hook runs
\* before on_take_damage.  A player is in one team, so an attacker who is
\* the victim has the victim's team.
PreDamage(index, attacker, victim_team, attacker_team, bad) ==
    /\ pl_plugin.loaded
    /\ attacker = index => attacker_team = victim_team
    /\ attacker = 0 => attacker_team = 0
    /\ \E c1 \in {Handled(execute_pre_damage_skills(Context, index, attacker,
                                                    victim_team, attacker_team, bad),
                          "_execute_pre_damage_skills")} :
            /\ Leaves(c1)
            /\ pl_last' = [ev |-> "on_take_damage", userid |-> index,
                           attacker |-> attacker, victim_team |-> victim_team,
                           attacker_team |-> attacker_team, log |-> c1.log]
    /\ UNCHANGED <<pl_plugin, pl_granted, cdVars, skVars, rgVars>>

\* The host fires player_disconnect; its handlers run in the order they were
\* registered, and then the host deletes the player's entity.
PlayerDisconnect(index, team, bad, fail) ==
    /\ pl_plugin.loaded
    /\ \E c1 \in {Handled(save_disconnecters_data(ContextFailing(fail), index),
                          "_save_disconnecters_data")} :
       \E c2 \in {Handled(execute_individual_skills(c1, "player_disconnect",
                                                    index, team, bad),
                          "_execute_individual_skills")} :
       \E c3 \in {on_entity_deleted(c2, index)} :
            /\ c3.leaked <= MaxLeaked
            /\ Leaves(c3)
            /\ pl_last' = [ev |-> "player_disconnect", userid |-> index,
                           playing |-> team \in {2, 3},
                           saved |-> pl_players[index],
                           reloaded |-> c2.players[index],
                           log |-> c2.log]
    /\ UNCHANGED <<pl_plugin, pl_granted, cdVars, skVars, rgVars>>

\* @OnLevelEnd _save_data_on_level_end
LevelEnd(fail) ==
    \E c1 \in {Handled(save_all_data(ContextFailing(fail), TRUE),
                       "_save_data_on_level_end")} :
        /\ pl_plugin.loaded
        /\ Leaves(c1)
        /\ pl_last' = [ev |-> "level_end", log |-> c1.log]
        /\ UNCHANGED <<pl_plugin, pl_granted, cdVars, skVars, rgVars>>

\* _data_save_repeat fires: Repeat(_save_all_data), started with (240, 0).
DataSaveRepeat(fail) ==
    /\ pl_plugin.loaded
    /\ pl_plugin.save_repeat = "RUNNING"
    /\ \E c1 \in {Handled(save_all_data(ContextFailing(fail), TRUE),
                          "_data_save_repeat")} :
        /\ Leaves(c1)
        /\ pl_last' = [ev |-> "data_save_repeat", log |-> c1.log]
    /\ UNCHANGED <<pl_plugin, pl_granted, cdVars, skVars, rgVars>>

\* unload(): an exception of _save_all_data leaves unload before the close.
Unload(fail) ==
    /\ pl_plugin.loaded
    /\ \E c3 \in {Db_close(save_all_data(
                      Logged(ContextFailing(fail), <<"stop", "_data_save_repeat">>),
                      TRUE))} :
        /\ Leaves(c3)
        /\ pl_last' = [ev |-> "unload", log |-> c3.log, raised |-> c3.raised]
        /\ pl_plugin' = [loaded |-> FALSE, save_repeat |-> "STOPPED",
                         db_open |-> c3.raised # "none"]
    /\ UNCHANGED <<pl_granted, cdVars, skVars, rgVars>>

on_change_hero_menu_select_unowned(ctx, index, hero_id) ==
    IF hero_id = ctx.players[index].hero THEN ctx
    ELSE [ctx EXCEPT !.players[index].hero = hero_id]

\* _on_change_hero_menu_select(menu, player_index, choice)
on_change_hero_menu_select(ctx, index, hero_id) ==
    IF hero_id = ctx.players[index].hero THEN ctx
    ELSE IF ~Owns(ctx.players[index], hero_id)
    THEN [ctx EXCEPT !.players[index] =
            [hero |-> hero_id,
             heroes |-> Append(@.heroes, Hero_init(hero_id, 0, 0))]]
    ELSE [ctx EXCEPT !.players[index].hero = hero_id]

\* The player opens the change hero menu (_on_change_hero_menu_build looks
\* the player up) and selects hero_id, which the menu offers when the
\* hero's required_level is at most the player's total level.
ChangeHero(index, hero_id) ==
    /\ pl_plugin.loaded
    /\ \E c1 \in {Handled(GetPlayer(Context, index), "_on_change_hero_menu_build")} :
       \E c2 \in {IF c1.players[index] # NoPlayer
                  THEN on_change_hero_menu_select(c1, index, hero_id) ELSE c1} :
            /\ c1.players[index] # NoPlayer =>
                   HeroClasses[hero_id].required_level <=
                       calculate_total_level(c1.players[index])
            /\ Leaves(c2)
            /\ pl_last' = [ev |-> "change_hero", userid |-> index, hero |-> hero_id,
                           log |-> c2.log]
    /\ UNCHANGED <<pl_plugin, pl_granted, cdVars, skVars, rgVars>>

\* Hero.upgrade_skill(skill): skill.level += 1 (the skill point is spent
\* with it, skill_points being the levels not spent).
Hero_upgrade_skill(hero, k) ==
    LET Upgraded(r) == [hero |-> [hero EXCEPT !.skills[k] = r.skill],
                        raised |-> r.raised]
    IN  Upgraded(Skill_set_level(hero.skills[k], hero.skills[k].level + 1))

\* _on_spend_skills_menu_select(menu, player_index, choice)
on_spend_skills_menu_select(ctx, index, k) ==
    LET Spent(h, r) == [ctx EXCEPT !.players[index].heroes[h] = r.hero,
                                   !.raised = r.raised]
        Selected(h) ==
            IF ~Hero_can_upgrade_skill(ctx.players[index].heroes[h], k) THEN ctx
            ELSE Spent(h, Hero_upgrade_skill(ctx.players[index].heroes[h], k))
    IN  Selected(HeroIndex(ctx.players[index], ctx.players[index].hero))

\* The player opens the spend skills menu and selects the k-th skill of the
\* active hero, which the menu offers when the skill can be upgraded.
UpgradeSkill(index, k) ==
    /\ pl_plugin.loaded
    /\ \E c1 \in {Handled(GetPlayer(Context, index), "_on_spend_skills_menu_build")} :
       \E c2 \in {IF c1.players[index] # NoPlayer
                  THEN Handled(on_spend_skills_menu_select(c1, index, k),
                               "_on_spend_skills_menu_select")
                  ELSE c1} :
            /\ c1.players[index] # NoPlayer =>
                   /\ k <= Len(ActiveHero(c1.players[index]).skills)
                   /\ Hero_can_upgrade_skill(ActiveHero(c1.players[index]), k)
            /\ c1.players[index] = NoPlayer => k = 1
            /\ Leaves(c2)
            /\ pl_last' = [ev |-> "upgrade_skill", userid |-> index, skill |-> k,
                           log |-> c2.log]
    /\ UNCHANGED <<pl_plugin, pl_granted, cdVars, skVars, rgVars>>

(***************************************************************************)
(* SpecRegistry: the registries of the skill classes.  skill.py declares   *)
(* Skill and RepeatSkill when it is imported; the classes of skill authors *)
(* are declared after it, a class after the class it derives from.         *)
(***************************************************************************)
DeclareClass_inheriting(registries, cls) ==
    LET Inherited == IF SkillClasses[cls].base \in DOMAIN registries
                     THEN registries[SkillClasses[cls].base]
                     ELSE [e \in {} |-> <<>>]
        Filled == RegisterAttrs(Inherited, SkillClasses[cls].attrs, 1)
    IN  [c \in DOMAIN registries \cup {cls} |->
            IF c # cls THEN registries[c]
            ELSE IF SkillClasses[cls].meta # "_RepeatSkillMeta" THEN Filled
            ELSE RegistryAppend(RegistryAppend(Filled, "player_spawn", "_start_repeat"),
                                "player_death", "_stop_repeat")]

\* The class statement of cls: the metaclass __init__ binds a new
\* defaultdict to cls._event_callbacks and fills it from the class body.
DeclareClass(registries, cls) ==
    [c \in DOMAIN registries \cup {cls} |->
        IF c = cls THEN event_callbacks(cls) ELSE registries[c]]

\* The classes skill.py itself declares.
LibraryClasses == <<"Skill", "RepeatSkill">>

\* The classes of skill authors.
AuthorClasses == DOMAIN SkillClasses \ {"Skill", "RepeatSkill"}

\* The event names execute is called with: player_jump is tagged nowhere.
RegistryEvents == Events \cup {"player_kill"}

\* The attributes of the class bodies that are tagged.
TaggedCallbacks ==
    UNION {{SkillClasses[c].attrs[k].name :
                k \in {j \in DOMAIN SkillClasses[c].attrs :
                           SkillClasses[c].attrs[j].tagged}} :
           c \in DOMAIN SkillClasses}

StartRegistry ==
    /\ rg_registry = DeclareClass(DeclareClass(EmptyMap, LibraryClasses[1]),
                                  LibraryClasses[2])
    /\ rg_skills = EmptyMap
    /\ rg_last = [op |-> "none"]

\* class cls(base): ...
DeclareSkillClass(cls) ==
    /\ cls \notin DOMAIN rg_registry
    /\ SkillClasses[cls].base \in DOMAIN rg_registry
    /\ rg_registry' = DeclareClass(rg_registry, cls)
    /\ rg_last' = [op |-> "declare", cls |-> cls]
    /\ UNCHANGED <<rg_skills, cdVars, skVars, plVars>>

\* cls(owner, level): an instance of a declared class; the model keeps the
\* latest instance of each class.
NewSkill(cls, level) ==
    /\ cls \in DOMAIN rg_registry
    /\ rg_skills' = Put(rg_skills, cls, Skill_init(cls, level))
    /\ rg_last' = [op |-> "new", cls |-> cls]
    /\ UNCHANGED <<rg_registry, cdVars, skVars, plVars>>

\* skill.execute(event_name, event_args) on the instance of cls; bad is the
\* callback that raises in this call, one of those the class has for the
\* event, or "none".
ExecuteSkill(cls, event_name, bad) ==
    /\ cls \in DOMAIN rg_skills
    /\ bad # "none" =>
           /\ event_name \in DOMAIN rg_registry[cls]
           /\ \E k \in DOMAIN rg_registry[cls][event_name] :
                  rg_registry[cls][event_name][k] = bad
    /\ \E r \in {Skill_execute_on(rg_registry[cls], rg_skills[cls], event_name, bad)} :
        /\ rg_registry' = [rg_registry EXCEPT ![cls] = r.registry]
        /\ rg_skills' = [rg_skills EXCEPT ![cls] = r.skill]
        /\ rg_last' = [op |-> "execute", cls |-> cls, ev |-> event_name,
                       bad |-> bad, calls |-> r.calls, raised |-> r.raised]
    /\ UNCHANGED <<cdVars, skVars, plVars>>

InitRegistry == StartCooldown /\ StartSkill(0, 0) /\ StartRegistry /\ StartPlugin

NextRegistry ==
    \/ \E cls \in AuthorClasses : DeclareSkillClass(cls)
    \/ \E cls \in AuthorClasses, level \in 0..1 : NewSkill(cls, level)
    \/ \E cls \in AuthorClasses, e \in RegistryEvents,
          bad \in TaggedCallbacks \cup {"none"} : ExecuteSkill(cls, e, bad)

SpecRegistry == InitRegistry /\ [][NextRegistry]_vars

(***************************************************************************)
(* The specifications.  Each one starts the part of the state it is about  *)
(* as the program constructs it and leaves the rest alone.                 *)
(***************************************************************************)
InitCooldown == StartCooldown /\ StartSkill(0, 0) /\ StartRegistry /\ StartPlugin

NextCooldown ==
    \/ \E key \in Keys, d \in 0..MaxDuration : CooldownSet(key, d)
    \/ \E key \in Keys : CooldownGet(key)
    \/ ClockTick

SpecCooldown == InitCooldown /\ [][NextCooldown]_vars

InitSkill ==
    /\ StartCooldown
    /\ \E l1 \in 0..MaxLevel, l2 \in 0..MaxLevel : StartSkill(l1, l2)
    /\ StartRegistry
    /\ StartPlugin

NextSkill ==
    \/ \E i \in 1..2, e \in Events, bad \in BadChoices : SkillExecute(i, e, bad)
    \/ \E e \in Events, bad \in BadChoices : HeroExecuteSkills(e, bad)
    \/ \E i \in 1..2, v \in 0..MaxLevel : SkillSetLevel(i, v)

SpecSkill == InitSkill /\ [][NextSkill]_vars

Init == StartCooldown /\ StartSkill(0, 0) /\ StartRegistry /\ StartPlugin

Next ==
    \/ \E i \in Indexes, t \in Teams, bad \in PluginBad : PlayerSpawn(i, t, bad)
    \/ \E v \in Indexes, a \in Indexes \cup {0}, bad \in PluginBad :
          \E hs \in (IF a \in {0, v} THEN {FALSE} ELSE BOOLEAN) :
              PlayerDeath(v, a, hs, bad)
    \/ \E i \in Indexes, t \in Teams, bad \in PluginBad : PlayerJump(i, t, bad)
    \/ \E v \in Indexes, a \in Indexes \cup {0}, bad \in PluginBad :
          PlayerHurt(v, a, bad)
    \/ \E i \in Indexes, t \in Teams, bad \in PluginBad, fail \in NoFail :
          PlayerDisconnect(i, t, bad, fail)
    \/ \E fail \in NoFail : LevelEnd(fail)
    \/ \E fail \in NoFail : DataSaveRepeat(fail)
    \/ \E fail \in NoFail : Unload(fail)
    \/ \E i \in Indexes, h \in HeroIds : ChangeHero(i, h)
    \/ \E i \in Indexes, k \in SkillSlots : UpgradeSkill(i, k)

Spec == Init /\ [][Next]_vars

\* SpecStore: the saves and loads of the plugin with a storage that can fail
\* any one write of a batch save.
NextStore ==
    \/ \E i \in Indexes, bad \in PluginBad : PlayerSpawn(i, 2, bad)
    \/ \E v \in Indexes, bad \in PluginBad :
          \E a \in Indexes \ {v} : PlayerDeath(v, a, FALSE, bad)
    \/ \E i \in Indexes, bad \in PluginBad, fail \in NoFail :
          PlayerDisconnect(i, 2, bad, fail)
    \/ \E fail \in BatchWrites \cup NoFail : LevelEnd(fail)
    \/ \E fail \in BatchWrites \cup NoFail : DataSaveRepeat(fail)
    \/ \E fail \in BatchWrites \cup NoFail : Unload(fail)

SpecStore == Init /\ [][NextStore]_vars

\* SpecDamage: the pre-damage hook, among the events that load, reselect
\* and discard the players it looks up.
NextDamage ==
    \/ \E i \in Indexes, t \in Teams, bad \in PluginBad : PlayerSpawn(i, t, bad)
    \/ \E v \in Indexes, a \in Indexes \cup {0}, bad \in PluginBad :
          \E vt \in PlayingTeams, at \in PlayingTeams \cup {0} :
              PreDamage(v, a, vt, at, bad)
    \/ \E bad \in PluginBad : \E hs \in BOOLEAN : PlayerDeath(2, 1, hs, bad)
    \/ \E i \in Indexes, h \in HeroIds : ChangeHero(i, h)
    \/ \E i \in Indexes, t \in Teams, bad \in PluginBad, fail \in NoFail :
          PlayerDisconnect(i, t, bad, fail)

SpecDamage == Init /\ [][NextDamage]_vars

\* SpecLoad: the plugin started on a storage that holds rows of an earlier
\* run.  The rows of the player with steamid 1 are any the schema allows:
\* an active hero row or none, hero rows of known and unknown hero ids, and
\* skill rows of the stored heroes with levels up to the hero's level.
StoredHeroRows == {<<0, 0>>, <<1, XpTable[1]>>}

StoredHeroes == UNION {[D -> StoredHeroRows] : D \in SUBSET RowIds}

SkillIdsOf(hero_id) ==
    IF hero_id \in HeroIds
    THEN {HeroClasses[hero_id].skill_classes[k] :
              k \in DOMAIN HeroClasses[hero_id].skill_classes}
    ELSE {}

StoredSkills(heroes) ==
    {sk \in [RowIds -> UNION {[S -> 0..1] : S \in SUBSET UNION {SkillIdsOf(h) : h \in RowIds}}] :
        \A h \in RowIds :
            /\ DOMAIN sk[h] \subseteq SkillIdsOf(h)
            /\ h \notin DOMAIN heroes => sk[h] = EmptyMap
            /\ h \in DOMAIN heroes => \A s \in DOMAIN sk[h] : sk[h][s] <= heroes[h][1]}

StoredActive == {EmptyMap} \cup {Put(EmptyMap, SteamId(1), h) : h \in RowIds}

InitLoad ==
    /\ StartCooldown
    /\ StartSkill(0, 0)
    /\ StartRegistry
    /\ pl_players = [i \in Indexes |-> NoPlayer]
    /\ \E hs \in StoredHeroes : \E sk \in StoredSkills(hs) : \E a \in StoredActive :
           pl_db = [players |-> a,
                    heroes |-> [EmptyTables.heroes EXCEPT ![SteamId(1)] = hs],
                    skills |-> [EmptyTables.skills EXCEPT ![SteamId(1)] = sk],
                    durable |->
                        [players |-> a,
                         heroes |-> [EmptyTables.heroes EXCEPT ![SteamId(1)] = hs],
                         skills |-> [EmptyTables.skills EXCEPT ![SteamId(1)] = sk]]]
    /\ pl_leaked = 0
    /\ pl_plugin = [loaded |-> TRUE, save_repeat |-> "RUNNING", db_open |-> TRUE]
    /\ pl_granted = 0
    /\ pl_last = [ev |-> "none"]

NextLoad ==
    \/ \E i \in Indexes, bad \in PluginBad : PlayerSpawn(i, 2, bad)
    \/ \E bad \in PluginBad : PlayerDeath(2, 1, FALSE, bad)
    \/ \E i \in Indexes, h \in HeroIds : ChangeHero(i, h)
    \/ \E i \in Indexes, bad \in PluginBad, fail \in NoFail :
          PlayerDisconnect(i, 2, bad, fail)

SpecLoad == InitLoad /\ [][NextLoad]_vars

(***************************************************************************)
(* Claims about the cooldown store.                                        *)
(***************************************************************************)

\* C5: a key written with duration d at time t reads, at any later time t',
\* as d - (t' - t), whatever the store held before the write: d when
\* t' = t, and a value <= 0 whenever t' >= t + d.
C5_WriteThenRead ==
    (cd_read.key \in Keys /\ cd_written[cd_read.key] # <<>>) =>
        LET d == cd_written[cd_read.key][1]
            t == cd_written[cd_read.key][2]
        IN  /\ cd_read.t >= t
            /\ cd_read.value = d - (cd_read.t - t)
            /\ (cd_read.t = t => cd_read.value = d)
            /\ (cd_read.t >= t + d => cd_read.value <= 0)

\* A key is overwritten (it held an earlier value), time has passed since
\* the write, and the read falls after the cooldown has run out.
C5_Witness ==
    /\ cd_read.key \in Keys
    /\ cd_written[cd_read.key] # <<>>
    /\ cd_written[cd_read.key][1] > 0
    /\ cd_written[cd_read.key][2] > 0
    /\ cd_written[cd_read.key][3]
    /\ cd_read.t >= cd_written[cd_read.key][1] + cd_written[cd_read.key][2]

\* C6: with a non-negative, non-decreasing clock, every read of a key that
\* was never written returns a value <= 0: the first one, which inserts the
\* key, and the ones after it.
C6_UnseenReady ==
    (cd_read.key \in Keys /\ cd_written[cd_read.key] = <<>>) =>
        cd_read.value <= 0

\* A never-written key is read again, later, after its first read inserted
\* it.
C6_Witness ==
    /\ cd_read.key \in Keys
    /\ cd_written[cd_read.key] = <<>>
    /\ ~cd_read.fresh
    /\ cd_read.t > 0
    /\ cd_store[cd_read.key] < cd_read.t
(***************************************************************************)
(* Claims about skills and the repeating skill.                            *)
(***************************************************************************)
IsRepeating(i) == sk_skills[i].repeat.status # "NONE"

\* C1: delivering 'player_spawn' to a repeating skill through Skill.execute
\* leaves its tick RUNNING and delivering 'player_death' leaves it STOPPED,
\* so that spawn, death, spawn from STOPPED gives RUNNING, STOPPED, RUNNING;
\* a start while RUNNING and a stop while STOPPED change nothing, and the
\* tick never makes two start transitions or two stop transitions in a row
\* (deliveries that return normally).
C1_SpawnDeathSpawn ==
    /\ \A i \in 1..Len(sk_skills) :
          (/\ sk_last.op = "execute" /\ sk_last.skill = i /\ IsRepeating(i)
           /\ sk_last.raised = "none") =>
             /\ sk_last.ev = "player_spawn" =>
                   /\ sk_skills[i].repeat.status = "RUNNING"
                   /\ sk_last.pre.status = "RUNNING" =>
                         sk_skills[i].repeat = sk_last.pre
             /\ sk_last.ev = "player_death" =>
                   /\ sk_skills[i].repeat.status = "STOPPED"
                   /\ sk_last.pre.status = "STOPPED" =>
                         sk_skills[i].repeat = sk_last.pre
    /\ (/\ Len(sk_hist) = 3
        /\ sk_hist[1].pre = "STOPPED"
        /\ <<sk_hist[1].ev, sk_hist[2].ev, sk_hist[3].ev>> =
              <<"player_spawn", "player_death", "player_spawn">>) =>
          <<sk_hist[1].post, sk_hist[2].post, sk_hist[3].post>> =
              <<"RUNNING", "STOPPED", "RUNNING">>
    /\ \A i \in 1..Len(sk_skills) :
          /\ Len(sk_trans[i]) = 2 => sk_trans[i][1] # sk_trans[i][2]
          /\ IsRepeating(i) =>
                sk_skills[i].repeat.delays =
                    IF sk_skills[i].repeat.status = "RUNNING" THEN 1 ELSE 0

\* spawn, death, spawn were delivered in a row to a repeating skill whose
\* tick was STOPPED.
C1_Witness ==
    /\ Len(sk_hist) = 3
    /\ sk_hist[1].pre = "STOPPED"
    /\ <<sk_hist[1].ev, sk_hist[2].ev, sk_hist[3].ev>> =
          <<"player_spawn", "player_death", "player_spawn">>
    /\ sk_last.op = "execute" /\ IsRepeating(sk_last.skill)
    /\ sk_trans[sk_last.skill] = <<"stop", "start">>

\* C2: assigning v to the level of a repeating skill completes without
\* error and stores v; afterwards the tick is STOPPED if v = 0 and RUNNING
\* if v is nonzero and the tick was STOPPED before.
C2_LevelAssignment ==
    \A i \in 1..Len(sk_skills) :
        (sk_last.op = "set_level" /\ sk_last.skill = i /\ IsRepeating(i)) =>
            /\ sk_last.raised = "none"
            /\ sk_skills[i].level = sk_last.value
            /\ sk_last.value = 0 => sk_skills[i].repeat.status = "STOPPED"
            /\ (sk_last.value # 0 /\ sk_last.pre.status = "STOPPED") =>
                  sk_skills[i].repeat.status = "RUNNING"

\* C7: when a callback raises during a delivery, the callbacks registered
\* for the event after it on the same skill, and those of the hero's other
\* skills, are still invoked: every delivery invokes every callback
\* registered for the event on every skill it is delivered to.
Invoked(i, name) == \E j \in 1..Len(sk_calls) : sk_calls[j] = <<i, name>>

Registered(i, event_name) ==
    IF event_name \in DOMAIN event_callbacks(sk_skills[i].cls)
    THEN event_callbacks(sk_skills[i].cls)[event_name]
    ELSE <<>>

C7_CallbackIsolation ==
    /\ sk_last.op = "execute" =>
          \A k \in 1..Len(Registered(sk_last.skill, sk_last.ev)) :
              Invoked(sk_last.skill, Registered(sk_last.skill, sk_last.ev)[k])
    /\ sk_last.op = "execute_skills" =>
          \A i \in 1..Len(sk_skills) :
              \A k \in 1..Len(Registered(i, sk_last.ev)) :
                  Invoked(i, Registered(i, sk_last.ev)[k])

(***************************************************************************)
(* Claims about the plugin.                                                *)
(***************************************************************************)
NoneRunning(player) ==
    \A h \in 1..Len(player.heroes) :
        \A k \in 1..Len(player.heroes[h].skills) :
            player.heroes[h].skills[k].repeat.status # "RUNNING"

\* C3: once a player_death event for a player has been dispatched, whatever
\* its cause, no repeating skill of that player's active hero has its tick
\* RUNNING.
C3_DeathStopsTick ==
    (pl_last.ev = "player_death" /\ pl_players[pl_last.userid] # NoPlayer) =>
        \A k \in 1..Len(ActiveHero(pl_players[pl_last.userid]).skills) :
            ActiveHero(pl_players[pl_last.userid]).skills[k].repeat.status # "RUNNING"

\* C4: no tick task outlives its player: no scheduled tick belongs to a
\* Player the disconnect handler removed, and once the plugin is unloaded no
\* tick of any player is RUNNING.
C4_NoTickLeak ==
    /\ pl_leaked = 0
    /\ ~pl_plugin.loaded => \A i \in Indexes : NoneRunning(pl_players[i])

\* The log entries of a kind about a steamid.
Entries(log, kind, steamid) ==
    {j \in 1..Len(log) : log[j][1] = kind /\ log[j][2] = steamid}

SameHero(a, b) ==
    /\ a.level = b.level
    /\ a.xp = b.xp
    /\ Len(a.skills) = Len(b.skills)
    /\ \A k \in 1..Len(a.skills) : a.skills[k].level = b.skills[k].level

\* The loaded player is equivalent to the saved one: the same active hero,
\* and every hero owned at save time is owned with the same level, xp and
\* skill levels.
Equivalent(saved, loaded) ==
    /\ loaded # NoPlayer
    /\ loaded.hero = saved.hero
    /\ \A h \in 1..Len(saved.heroes) :
          /\ Owns(loaded, saved.heroes[h].cls)
          /\ SameHero(saved.heroes[h],
                      loaded.heroes[HeroIndex(loaded, saved.heroes[h].cls)])

\* C8: the player the disconnect handler saved and the player the next load
\* of the same identity builds (the one the disconnect event's skill handler
\* makes right after the save) are equivalent.
C8_SaveLoadRoundTrip ==
    (pl_last.ev = "player_disconnect" /\ pl_last.saved # NoPlayer) =>
        Equivalent(pl_last.saved, pl_last.reloaded)

\* C9: when all handlers of player_disconnect have run for a player of
\* g_players, the player was saved exactly once, no load was made for the
\* identity, and the index is no longer in g_players.
C9_DisconnectSavesAndRemoves ==
    (pl_last.ev = "player_disconnect" /\ pl_last.saved # NoPlayer) =>
        /\ Cardinality(Entries(pl_last.log, "save_player", SteamId(pl_last.userid))) = 1
        /\ Entries(pl_last.log, "load", SteamId(pl_last.userid)) = {}
        /\ pl_last.reloaded = NoPlayer

StorageOps == {"save_player", "save_hero", "save_players", "save_heroes",
               "save_skills", "commit"}

\* C10: _save_all_data with no player in g_players (at level end, at the
\* periodic save, at unload) raises nothing and performs no storage
\* operation: no save_players, save_heroes, save_skills, no commit.
C10_EmptySaveAll ==
    (/\ pl_last.ev \in {"level_end", "data_save_repeat", "unload"}
     /\ \A i \in Indexes : pl_players[i] = NoPlayer) =>
        \A j \in 1..Len(pl_last.log) :
            pl_last.log[j][1] \notin StorageOps \cup {"raised"}

\* The periodic save runs with g_players empty again after a player was
\* saved and removed.
C10_Witness ==
    /\ pl_last.ev = "data_save_repeat"
    /\ \A i \in Indexes : pl_players[i] = NoPlayer
    /\ pl_db.players # EmptyMap
    /\ pl_last.log = <<>>

(***************************************************************************)
(* Claims about the commits of the saves (SpecStore).                      *)
(***************************************************************************)
SaveEvents == {"player_disconnect", "level_end", "data_save_repeat", "unload"}

\* The positions of a log at which a write was made.
WritesIn(log) == {j \in 1..Len(log) : log[j][1] \in Writes}

FailedIn(log) == \E j \in 1..Len(log) : log[j][1] = "failed"

\* C11: a save (at disconnect, level end, the periodic tick, unload) that
\* wrote rows and returned normally issued a commit after its last write,
\* and when its handler is over the store holds no written row that is not
\* durable.
C11_CommitBeforeReturn ==
    (/\ pl_last.ev \in SaveEvents
     /\ WritesIn(pl_last.log) # {}
     /\ ~FailedIn(pl_last.log)) =>
        /\ \E c \in 1..Len(pl_last.log) :
              /\ pl_last.log[c][1] = "commit"
              /\ \A j \in WritesIn(pl_last.log) : j < c
        /\ pl_db.durable = Tables(pl_db)

\* A batch save at level end wrote the rows of two players and committed.
C11_Witness ==
    /\ pl_last.ev = "level_end"
    /\ ~FailedIn(pl_last.log)
    /\ Cardinality(WritesIn(pl_last.log)) = 3
    /\ DOMAIN pl_db.durable.players = Indexes

\* The durable rows of an identity.
DurableOf(db, steamid) ==
    <<IF steamid \in DOMAIN db.durable.players
      THEN db.durable.players[steamid] ELSE "none",
      db.durable.heroes[steamid], db.durable.skills[steamid]>>

InSeq(x, seq) == \E k \in 1..Len(seq) : seq[k] = x

\* The handler run recorded in last saved the identity and no write failed.
SavedBy(last, steamid) ==
    /\ last.ev \in SaveEvents
    /\ ~FailedIn(last.log)
    /\ \E j \in 1..Len(last.log) :
          \/ last.log[j][1] = "save_player" /\ last.log[j][2] = steamid
          \/ last.log[j][1] = "save_players" /\ InSeq(steamid, last.log[j][2])

\* C12: the rows a batch save wrote before one of its writes failed are
\* never made durable: the durable rows of an identity change only in a
\* handler run whose save of that identity had no failing write.
C12_FailedBatchNotDurable ==
    [][\A s \in Indexes :
          DurableOf(pl_db', s) # DurableOf(pl_db, s) => SavedBy(pl_last', s)]_vars

(***************************************************************************)
(* Claims about loading a player.                                          *)
(***************************************************************************)

\* The outcomes of the loads the last event's handlers made.
LoadOutcomes ==
    IF pl_last.ev = "none" THEN {}
    ELSE {pl_last.log[k][3] : k \in {j \in DOMAIN pl_last.log : pl_last.log[j][1] = "load"}}

\* C13: the active hero of every loaded player is one of the heroes the
\* player owns, after the load and after every change-hero selection, and
\* no load fails in selecting the active hero, whether the stored active
\* hero id is absent, unknown, or of a hero the player owns.
C13_ActiveHeroOwned ==
    /\ \A i \in Indexes :
           pl_players[i] # NoPlayer => Owns(pl_players[i], pl_players[i].hero)
    /\ "StopIteration" \notin LoadOutcomes

\* A player was loaded whose stored active hero id names no hero the player
\* owns: the first hero became the active one.
C13_Witness ==
    /\ pl_last.ev = "player_spawn"
    /\ pl_last.userid = 1
    /\ "ok" \in LoadOutcomes
    /\ Db_get_active_hero_id(pl_db, SteamId(1)) = UnknownHeroId
    /\ pl_players[1] # NoPlayer
    /\ pl_players[1].hero = pl_players[1].heroes[1].cls

\* The last event's handlers loaded the player with this steamid.
LoadedIn(steamid) ==
    /\ pl_last.ev # "none"
    /\ \E k \in DOMAIN pl_last.log :
           pl_last.log[k][1] = "load" /\ pl_last.log[k][2] = steamid

\* The stored hero ids that are known hero classes.
StoredKnown(db, steamid) == DOMAIN db.heroes[steamid] \cap HeroIds

RECURSIVE StoredLevelSum(_, _, _)
StoredLevelSum(db, steamid, k) ==
    IF k > Len(HeroOrder) THEN 0
    ELSE (IF HeroOrder[k] \in DOMAIN db.heroes[steamid]
          THEN db.heroes[steamid][HeroOrder[k]][1] ELSE 0)
         + StoredLevelSum(db, steamid, k + 1)

ExpectedHeroIds(db, steamid) ==
    StoredKnown(db, steamid) \cup
    {h \in HeroIds : HeroClasses[h].required_level <= StoredLevelSum(db, steamid, 1)}

\* C14: after a load the player owns the stored hero ids that are known
\* hero classes and every known hero whose required_level is at most the
\* sum of their levels; rows of unknown hero ids are skipped without error;
\* and each skill has the stored level when there is a row of its skill id
\* and the default level 0 otherwise.
C14_LoadReconstructs ==
    \A i \in Indexes :
        (pl_last.ev = "player_spawn" /\ pl_last.userid = i /\ LoadedIn(SteamId(i))) =>
            /\ pl_players[i] # NoPlayer
            /\ {pl_players[i].heroes[k].cls : k \in DOMAIN pl_players[i].heroes}
                   = ExpectedHeroIds(pl_db, SteamId(i))
            /\ \A k \in DOMAIN pl_players[i].heroes :
               \A j \in DOMAIN pl_players[i].heroes[k].skills :
                   pl_players[i].heroes[k].skills[j].level =
                       IF pl_players[i].heroes[k].skills[j].cls \in
                              DOMAIN pl_db.skills[SteamId(i)][pl_players[i].heroes[k].cls]
                       THEN pl_db.skills[SteamId(i)][pl_players[i].heroes[k].cls][
                                pl_players[i].heroes[k].skills[j].cls]
                       ELSE 0

(***************************************************************************)
(* Claims about the delivery of events to skills.                          *)
(***************************************************************************)

\* The deliveries in a log: the entries of kind "deliver", in order.
Deliveries(log) == SelectSeq(log, LAMBDA e : e[1] = "deliver")

\* C15: a player_death or player_hurt event whose attacker is 0 or the
\* victim runs no skill callback and leaves every hero's xp, and all else
\* of every player, as it was.
C15_NoAttackerNoEffect ==
    [][(/\ pl_last'.ev \in {"player_death", "player_hurt"}
        /\ pl_last'.attacker \in {0, pl_last'.userid})
       => /\ Deliveries(pl_last'.log) = <<>>
          /\ pl_players' = pl_players]_vars

\* A player whose hero has xp died or was hurt with no attacker or by its
\* own hand.
C15_Witness ==
    /\ pl_last.ev \in {"player_death", "player_hurt"}
    /\ pl_last.attacker \in {0, pl_last.userid}
    /\ pl_players[pl_last.userid] # NoPlayer
    /\ ActiveHero(pl_players[pl_last.userid]).xp > 0

\* The last event was an interaction event with an attacker who is not the
\* victim, and g_players has a Player for both of them.
Interaction(ev) ==
    /\ pl_last.ev = ev
    /\ pl_last.attacker \notin {0, pl_last.userid}
    /\ pl_players[pl_last.attacker] # NoPlayer
    /\ pl_players[pl_last.userid] # NoPlayer

\* What an interaction event delivers: first to the attacker's active hero
\* with 'player' the attacker, then to the victim's active hero with
\* 'player' the victim, both with the same attacker and victim.
InteractionDeliveries(names) ==
    << <<"deliver", pl_last.attacker, pl_players[pl_last.attacker].hero, names[1],
         EventArgs(pl_last.attacker, pl_last.attacker, pl_last.userid)>>,
       <<"deliver", pl_last.userid, pl_players[pl_last.userid].hero, names[2],
         EventArgs(pl_last.userid, pl_last.attacker, pl_last.userid)>> >>

\* C16: a player_death (player_hurt) event with an attacker who is not the
\* victim is delivered as player_kill (player_attack) to the attacker's
\* active hero with 'player' the attacker, and then as player_death
\* (player_victim) to the victim's active hero with 'player' the victim,
\* both with the same attacker and victim; no other hero receives anything.
C16_InteractionOrder ==
    /\ Interaction("player_death") =>
           Deliveries(pl_last.log) =
               InteractionDeliveries(<<"player_kill", "player_death">>)
    /\ Interaction("player_hurt") =>
           Deliveries(pl_last.log) =
               InteractionDeliveries(<<"player_attack", "player_victim">>)

\* Player 1, playing Shaman, was hurt by player 2.
C16_Witness ==
    /\ Interaction("player_hurt")
    /\ pl_last.userid = 1
    /\ pl_players[1].hero = "Shaman"
    /\ Len(Deliveries(pl_last.log)) = 2

\* The Player the handlers of an event find at index: the one g_players
\* has, or the one _new_player makes of the stored rows.
PlayerBefore(index) ==
    IF pl_players[index] # NoPlayer THEN pl_players[index]
    ELSE new_player(pl_db, index).player

\* Every hero of every player has after the step the xp it had, but for
\* gain more on the active hero of the player at index.
XpChangedOnlyBy(index, gain) ==
    \A i \in Indexes :
        pl_players'[i] # NoPlayer =>
            \A k \in DOMAIN pl_players'[i].heroes :
                pl_players'[i].heroes[k].xp =
                    PlayerBefore(i).heroes[k].xp +
                    (IF i = index /\ pl_players'[i].heroes[k].cls = pl_players'[i].hero
                     THEN gain ELSE 0)

IndividualEvents == {"player_spawn", "player_jump", "player_disconnect"}

\* The Player the handler of the last individual event found for its
\* subject: the one g_players holds, or for a disconnect, after which the
\* host drops the Player, the one the handler looked up.
SubjectFound(last, players) ==
    IF last.ev = "player_disconnect" THEN last.reloaded ELSE players[last.userid]

\* C18: a player_spawn, player_jump or player_disconnect event is delivered
\* under its own name, with 'player' the subject, to the subject's active
\* hero and to nothing else, and to no skill at all when the subject is not
\* in team 2 or 3; the subject's other heroes and the other players are
\* left as they were.
C18_IndividualDelivery ==
    [][pl_last'.ev \in IndividualEvents =>
        /\ \A k \in DOMAIN Deliveries(pl_last'.log) :
               /\ SubjectFound(pl_last', pl_players') # NoPlayer
               /\ Deliveries(pl_last'.log)[k] =
                      <<"deliver", pl_last'.userid,
                        SubjectFound(pl_last', pl_players').hero, pl_last'.ev,
                        EventArgs(pl_last'.userid, 0, 0)>>
        /\ Len(Deliveries(pl_last'.log)) <= 1
        /\ ~pl_last'.playing => Deliveries(pl_last'.log) = <<>>
        /\ (pl_last'.playing /\ SubjectFound(pl_last', pl_players') # NoPlayer)
               => Len(Deliveries(pl_last'.log)) = 1
        /\ \A j \in Indexes \ {pl_last'.userid} : pl_players'[j] = pl_players[j]
        /\ pl_players'[pl_last'.userid] # NoPlayer =>
               \A k \in DOMAIN pl_players'[pl_last'.userid].heroes :
                   pl_players'[pl_last'.userid].heroes[k].cls
                           # pl_players'[pl_last'.userid].hero
                       => pl_players'[pl_last'.userid].heroes[k]
                              = PlayerBefore(pl_last'.userid).heroes[k]]_vars

\* Player 1, owning two heroes and in a playing team, jumped while player
\* 2 was in the game.
C18_Witness ==
    /\ pl_last.ev = "player_jump"
    /\ pl_last.userid = 1
    /\ pl_last.playing
    /\ pl_players[1] # NoPlayer
    /\ Len(pl_players[1].heroes) = 2
    /\ pl_players[2] # NoPlayer
    /\ Len(Deliveries(pl_last.log)) = 1

\* C19: the pre-damage hook delivers nothing when the damage has no
\* attacker or attacker and victim are in the same team; otherwise it
\* delivers pre_player_attack to the attacker's active hero with 'player'
\* the attacker, then pre_player_victim to the victim's active hero with
\* 'player' the victim, and nothing else.
C19_PreDamageDelivery ==
    pl_last.ev = "on_take_damage" =>
        /\ (pl_last.attacker = 0 \/ pl_last.victim_team = pl_last.attacker_team)
               => Deliveries(pl_last.log) = <<>>
        /\ (/\ pl_last.attacker # 0
            /\ pl_last.victim_team # pl_last.attacker_team
            /\ pl_players[pl_last.attacker] # NoPlayer
            /\ pl_players[pl_last.userid] # NoPlayer)
               => Deliveries(pl_last.log) =
                      InteractionDeliveries(<<"pre_player_attack", "pre_player_victim">>)
        /\ Len(Deliveries(pl_last.log)) \in {0, 2}

\* Player 2, in team 3, is about to damage player 1, in team 2, who plays
\* Shaman.
C19_Witness ==
    /\ pl_last.ev = "on_take_damage"
    /\ pl_last.attacker = 2
    /\ pl_last.userid = 1
    /\ pl_last.attacker_team = 3
    /\ pl_last.victim_team = 2
    /\ pl_players[1] # NoPlayer
    /\ pl_players[1].hero = "Shaman"
    /\ Len(Deliveries(pl_last.log)) = 2

(***************************************************************************)
(* Claims about unload.                                                    *)
(***************************************************************************)

\* The positions of the log at which a task was stopped, at which the
\* storage was written or committed, and at which it was closed.
StopsAt(log) == {k \in DOMAIN log : log[k][1] = "stop"}
StorageAt(log) == {k \in DOMAIN log : log[k][1] \in StorageOps}
ClosesAt(log) == {k \in DOMAIN log : log[k][1] = "close"}

\* C20: unload stops every periodic task and every tick task of a
\* repeating skill, then saves the players, then closes the storage: the
\* stops come before every write, every write and commit before the close,
\* and when unload has returned neither the periodic save nor any skill's
\* tick is RUNNING.
C20_UnloadOrder ==
    pl_last.ev = "unload" =>
        /\ ClosesAt(pl_last.log) # {}
        /\ \A s \in StopsAt(pl_last.log) : \A w \in StorageAt(pl_last.log) : s < w
        /\ \A w \in StorageAt(pl_last.log) : \A c \in ClosesAt(pl_last.log) : w < c
        /\ pl_plugin.save_repeat # "RUNNING"
        /\ \A i \in Indexes :
               pl_players[i] # NoPlayer => RunningTicks(pl_players[i], 1) = 0

(***************************************************************************)
(* Claims about the registries of the skill classes.                       *)
(***************************************************************************)

\* C21: Skill.execute with an event name the registry of the skill's class
\* has no entry for calls no callback, raises nothing and leaves the skill
\* and the registry as they were, with no key added for the name; and
\* after every execute the registry of every class is the one its
\* declaration built.
C21_UnregisteredNoOp ==
    [][rg_last'.op = "execute" =>
        /\ rg_registry' = rg_registry
        /\ \A c \in DOMAIN rg_registry' : rg_registry'[c] = event_callbacks(c)
        /\ rg_last'.ev \notin DOMAIN rg_registry[rg_last'.cls] =>
               /\ rg_last'.calls = <<>>
               /\ rg_last'.raised = "none"
               /\ rg_skills' = rg_skills
               /\ rg_last'.ev \notin DOMAIN rg_registry'[rg_last'.cls]]_vars

\* player_jump, which no class has a callback for, was executed on an Aura
\* whose tick is running.
C21_Witness ==
    /\ rg_last.op = "execute"
    /\ rg_last.cls = "Aura"
    /\ rg_last.ev = "player_jump"
    /\ rg_skills["Aura"].repeat.status = "RUNNING"

\* The callbacks the body of cls tags with the event name, in the order the
\* body declares them.
DeclaredFor(cls, event_name) ==
    LET tagged == SelectSeq(SkillClasses[cls].attrs,
                     LAMBDA a : a.tagged /\ \E k \in DOMAIN a.events :
                                                a.events[k] = event_name)
    IN  [k \in DOMAIN tagged |-> tagged[k].name]

\* C22: every Skill.execute of an event calls each callback the skill's
\* class declares for that event exactly once, in the order of declaration
\* (A before B when A is declared before B); a callback tagged with
\* several event names is called for each of them.
C22_RegistrationOrder ==
    rg_last.op = "execute" =>
        SelectSeq(rg_last.calls, LAMBDA name : name \in TaggedCallbacks)
            = DeclaredFor(rg_last.cls, rg_last.ev)

\* The declared classes whose metaclass is _RepeatSkillMeta.
RepeatingClasses ==
    {c \in DOMAIN rg_registry : SkillClasses[c].meta = "_RepeatSkillMeta"}

\* The list the class has for the event name ends with the callback, which
\* is nowhere else in it.
EndsWithOnce(cls, event_name, callback) ==
    /\ event_name \in DOMAIN rg_registry[cls]
    /\ rg_registry[cls][event_name] # <<>>
    /\ \A k \in DOMAIN rg_registry[cls][event_name] :
           rg_registry[cls][event_name][k] = callback
               <=> k = Len(rg_registry[cls][event_name])

\* C23: the registry of every repeating skill class has _start_repeat as
\* the last entry for player_spawn and _stop_repeat as the last entry for
\* player_death, each exactly once and after the callbacks of the author;
\* and a player_spawn (player_death) executed on an instance leaves its
\* tick RUNNING (not RUNNING), whatever the author's callbacks do.
C23_LifecycleLast ==
    /\ \A c \in RepeatingClasses :
           /\ EndsWithOnce(c, "player_spawn", "_start_repeat")
           /\ EndsWithOnce(c, "player_death", "_stop_repeat")
    /\ (rg_last.op = "execute" /\ rg_last.cls \in RepeatingClasses) =>
           /\ rg_last.ev = "player_spawn" =>
                  rg_skills[rg_last.cls].repeat.status = "RUNNING"
           /\ rg_last.ev = "player_death" =>
                  rg_skills[rg_last.cls].repeat.status # "RUNNING"

\* C24: a repeating skill whose level is 0 never has its tick RUNNING,
\* whatever spawn and death deliveries and level assignments were made.
C24_NoTickAtLevelZero ==
    \A i \in DOMAIN sk_skills :
        sk_skills[i].repeat.status = "RUNNING" => sk_skills[i].level > 0

\* The entries _RepeatSkillMeta adds for the event name to a class of its.
Injected(cls, event_name) ==
    IF SkillClasses[cls].meta # "_RepeatSkillMeta" THEN <<>>
    ELSE IF event_name = "player_spawn" THEN <<"_start_repeat">>
    ELSE IF event_name = "player_death" THEN <<"_stop_repeat">>
    ELSE <<>>

\* The names the body of cls tags.
TaggedIn(cls) ==
    {SkillClasses[cls].attrs[k].name :
        k \in {j \in DOMAIN SkillClasses[cls].attrs : SkillClasses[cls].attrs[j].tagged}}

\* The registry holds what the body of cls declares, and what is injected
\* for a repeating class, and nothing of the class cls derives from.
OwnRegistry(registry, cls) ==
    /\ DOMAIN registry \subseteq RegistryEvents
    /\ \A e \in RegistryEvents :
           (IF e \in DOMAIN registry THEN registry[e] ELSE <<>>)
               = DeclaredFor(cls, e) \o Injected(cls, e)
    /\ SkillClasses[cls].base \in DOMAIN SkillClasses =>
           \A e \in DOMAIN registry : \A k \in DOMAIN registry[e] :
               registry[e][k] \notin TaggedIn(SkillClasses[cls].base)

\* C25: the registry of a skill class holds exactly the tagged callbacks of
\* the class's own declaration, and for a repeating class the injected
\* start and stop entries; a derived class does not have the tagged
\* callbacks of its parent in its registry; and the declaration of a class
\* changes the registry of no class declared before.
C25_OwnDeclarationOnly ==
    [][/\ \A c \in DOMAIN rg_registry' : OwnRegistry(rg_registry'[c], c)
       /\ rg_last'.op = "declare" =>
              \A c \in DOMAIN rg_registry : rg_registry'[c] = rg_registry[c]]_vars

\* Nova, derived from Aura, was declared after Frenzy, derived from Strike,
\* while an instance of Aura had its tick running.
C25_Witness ==
    /\ rg_last.op = "declare"
    /\ rg_last.cls = "Nova"
    /\ "Frenzy" \in DOMAIN rg_registry
    /\ "Aura" \in DOMAIN rg_skills
    /\ rg_skills["Aura"].repeat.status = "RUNNING"

====
